---- MODULE Spec2Model ----
(***************************************************************************)
(* A model of the quilkin packet plane:                                    *)
(*   - src/src/server.rs: the listening socket's forward loop, the         *)
(*     per-datagram fan-out task, the session registry (ensure_session),   *)
(*     the Session background receive task and the return-path task;       *)
(*   - src/src/filters/capture.rs: the Capture filter's read and write      *)
(*     operations and the capture strategies it is composed with.          *)
(***************************************************************************)
EXTENDS Integers, Sequences, FiniteSets, TLC

\* ------------------------------------------------------------------ bounds

\* Number of datagrams the listening socket receives (one fan-out task each).
MaxTasks == 2

\* Number of datagrams that arrive on Session (ephemeral) sockets.
MaxReplies == 3

\* Capacity of the return-path channel. The program uses 1024
\* (server.rs:52); the model scales it down so that the channel fills.
ChannelCapacity == 2

\* Length of a receive buffer. The program uses 65535 (server.rs:85, 236);
\* the model scales it down. No modelled datagram is longer.
BufSize == 2

\* Number of datagrams the listening socket receives in ReturnSpec.
MaxReturnTasks == 1

\* Number of datagrams that arrive on Session sockets in RaceSpec.
MaxRaceReplies == 2

\* Longest payload given to a Capture filter, and (plus one) the largest
\* size of a Prefix or Suffix strategy.
MaxLen == 3

\* Number of reads made on one Capture filter.
MaxReads == 2

\* Number of writes made on one Capture filter.
MaxWrites == 1

\* Number of captures made with one strategy on one buffer.
MaxCaptures == 2

\* A strategy size far larger than any payload (tests: 99 against "abc").
HugeSize == 99

\* ------------------------------------------------------------- environment

Clients == {"c1", "c2"}
Upstreams == {"u1", "u2"}

\* The endpoint lists a configuration may hold (config.get_endpoints()).
EndpointConfigs == {<<"u1">>, <<"u1", "u2">>}

\* Datagram contents, as byte sequences: "hi" and the single byte 0xFF,
\* which is not valid UTF-8.
Datagrams == {<<104, 105>>, <<255>>}

NoErr == [kind |-> "none", sid |-> 0]

\* ------------------------------------------------------------------- state

VARIABLES
    debugEnabled,  \* whether slog's static max level compiles debug! in
    endpoints,     \* the configured endpoints (a sequence of upstreams)
    fwdPc,         \* Server::run's loop: "recv" or "exited"
    tasks,         \* the fan-out tasks, by task number
    sess,          \* the Sessions, by session number: the Session that
                   \*   fan-out task t constructs for its i-th endpoint
                   \*   has number SidOf(t)
    sessions,      \* the SessionMap: a set of [key, sid] entries
    readers,       \* the fan-out tasks holding the map's shared lock
    chan,          \* the return-path channel, a queue of Packets
    retPc,         \* the return-path task: "recv" or "panicked"
    lastErr,       \* the I/O error the last step met, if any
    sendLog,       \* history: the Session::send_to invocations
    rxLog,         \* history: the datagrams received on Session sockets,
                   \*   and whether a Packet was built from each
    retLog,        \* history: the Packets the return path passed to send_to
    enqLog,        \* history: the Packets in the order they were enqueued
    inbound,       \* history: the sources of the listening socket's datagrams
    okKeys,        \* history: the keys for which ensure_session returned Ok
    capFilter,     \* a Capture filter instance
    capIn,         \* the ReadContext of the filter's latest read
    capOut,        \* what that read returned
    capReads,      \* the number of reads made on the filter
    capWIn,        \* the WriteContext of the filter's latest write
    capWOut,       \* what that write returned
    capWrites,     \* the number of writes made on the filter
    capDrops,      \* history: the number of reads that returned Drop
    strat,         \* a capture strategy used on its own (tests' end, beg)
    stratBuf,      \* the contents buffer the strategy is used on
    stratMetrics,  \* the Metrics passed to the strategy
    stratLog       \* history: the strategy's capture calls

serverVars == <<debugEnabled, endpoints, fwdPc, tasks, sess, sessions,
                readers, chan, retPc, lastErr, sendLog, rxLog, retLog,
                enqLog, inbound, okKeys>>

capVars == <<capFilter, capIn, capOut, capReads, capWIn, capWOut, capWrites,
             capDrops, strat, stratBuf, stratMetrics, stratLog>>

\* What no step of the server changes: the build, the configuration and the
\* filter variables.
fixedVars == <<capVars, debugEnabled, endpoints>>

vars == <<serverVars, capVars>>

TaskIds == 1..MaxTasks

\* rx is history: the datagram as the socket delivered it.
IdleTask == [pc |-> "idle", from |-> "none", packet |-> <<>>, idx |-> 0,
             s |-> 0, bindFailed |-> FALSE, rx |-> <<>>]

\* ----------------------------------------------------------------- helpers

\* A fresh receive buffer: vec![0; 65535].
ZeroBuf == [i \in 1..BufSize |-> 0]

Min(a, b) == IF a < b THEN a ELSE b

\* recv_from(&mut buf): the datagram's bytes overwrite the front of the
\* buffer; the rest of the buffer keeps what it held; size is the count.
RecvFrom(buf, dgram) ==
    LET size == Min(Len(dgram), Len(buf)) IN
    [buf  |-> [i \in 1..Len(buf) |-> IF i <= size THEN dgram[i] ELSE buf[i]],
     size |-> size]

\* &buf[..size]
Slice(buf, size) == SubSeq(buf, 1, size)

IsCont(x) == x >= 128 /\ x <= 191

\* std::str::from_utf8(bytes).is_ok(), from position i on.
RECURSIVE Utf8From(_, _)
Utf8From(b, i) ==
    IF i > Len(b) THEN TRUE
    ELSE LET x == b[i] IN
         IF x < 128 THEN Utf8From(b, i + 1)
         ELSE IF x >= 194 /\ x <= 223
              THEN /\ i + 1 <= Len(b)
                   /\ IsCont(b[i + 1])
                   /\ Utf8From(b, i + 2)
         ELSE IF x >= 224 /\ x <= 239
              THEN /\ i + 2 <= Len(b)
                   /\ IsCont(b[i + 1])
                   /\ (x = 224 => b[i + 1] >= 160)
                   /\ (x = 237 => b[i + 1] <= 159)
                   /\ IsCont(b[i + 2])
                   /\ Utf8From(b, i + 3)
         ELSE IF x >= 240 /\ x <= 244
              THEN /\ i + 3 <= Len(b)
                   /\ IsCont(b[i + 1])
                   /\ (x = 240 => b[i + 1] >= 144)
                   /\ (x = 244 => b[i + 1] <= 143)
                   /\ IsCont(b[i + 2])
                   /\ IsCont(b[i + 3])
                   /\ Utf8From(b, i + 4)
         ELSE FALSE

IsUtf8(b) == Utf8From(b, 1)

\* debug!(log, "...", from_utf8(packet).unwrap()): slog builds the record's
\* format arguments, and so evaluates the unwrap, whenever the static max
\* level compiles the debug! call in. TRUE when the call panics.
DebugPanics(bytes) == debugEnabled /\ ~IsUtf8(bytes)

Key(from, dest) == <<from, dest>>

\* map.contains_key(&key)
ContainsKey(map, key) == \E e \in map : e.key = key

\* map.get(&key): the session number stored under key (0 when absent).
Get(map, key) ==
    IF ContainsKey(map, key) THEN (CHOOSE e \in map : e.key = key).sid ELSE 0

\* Mutant of Insert: the new entry is added beside the one already there.
InsertKeepingOld(map, key, sid) == map \cup {[key |-> key, sid |-> sid]}

\* map.insert(key, Mutex::new(s)): a HashMap insert replaces the entry
\* already stored under an equal key.
Insert(map, key, sid) ==
    {e \in map : e.key # key} \cup {[key |-> key, sid |-> sid]}

\* Mutant of EnsureFound: the early return is never taken.
EnsureNeverFound(map, key) == FALSE

\* ensure_session, lines 176-180: `if map.contains_key(&key) { return Ok(()) }`
\* under the shared lock.
EnsureFound(map, key) == ContainsKey(map, key)

\* Mutant of DropReplaced: dropping a replaced Session ends its receive task.
DropReplacedStopsTask(ss, map, key) ==
    [i \in DOMAIN ss |->
        IF ContainsKey(map, key) /\ Get(map, key) = i
        THEN [ss[i] EXCEPT !.bgPc = "exited"] ELSE ss[i]]

\* What becomes of the Sessions when map.insert drops the entry it replaces
\* (line 185): Session (lines 197-205) has no Drop and its receive task was
\* spawned detached, owning its half of the socket (lines 218-226), so
\* nothing stops.
DropReplaced(ss, map, key) == ss

\* Mutant of WriteLockFree: the exclusive lock is granted beside readers.
WriteLockIgnoresReaders(rs) == TRUE

\* sessions.write().await is granted when no guard of the map is alive.
WriteLockFree(rs) == rs = {}

\* Mutex::lock().await on a registry entry is granted when it is unlocked.
MutexFree(session) == session.holder = 0

\* Mutant of RunLoopAfter: the loop joins the fan-out task it spawned
\* before it receives again.
RunLoopJoinsTask(result) == IF result = "Ok" THEN "join" ELSE "recv"

\* The loop of Server::run: process_receive_socket returns as soon as it has
\* spawned the fan-out task (the JoinHandle is dropped, line 87); its Err is
\* logged; either way the loop goes round again.
RunLoopAfter(result) == "recv"

\* Mutant of SessionLoopAfter: an error ends the task.
SessionLoopBreaksOnErr(result) == IF result = "Err" THEN "exited" ELSE "recv"

\* The loop of Session::run's task after recv_from, or Sender::send, failed.
SessionLoopAfter(result) == "recv"

\* The while-let loop of process_receive_packet_channel after send_to.
ReturnLoopAfter(result) == "recv"

\* Mutant of ChanHasRoom: one Packet more than the capacity is let in.
ChanHasRoomOffByOne(q) == Len(q) <= ChannelCapacity

\* Sender::send on the bounded channel completes when there is room.
ChanHasRoom(q) == Len(q) < ChannelCapacity

\* The Receiver is dropped when the return-path task ends.
ChanClosed == retPc = "panicked"

Enqueue(q, p) == Append(q, p)

\* Packet { dest, contents }; rx is history: the index in rxLog of the
\* datagram the Packet was built from.
NoPacket == [dest |-> "none", contents |-> <<>>, rx |-> 0]

\* Session::new's struct, with the state of the task Session::run spawns:
\* holder is the fan-out task that holds the entry's Mutex (0: unlocked).
NewSession(from, dest) ==
    [from |-> from, dest |-> dest, holder |-> 0, bgPc |-> "recv",
     buf |-> ZeroBuf, held |-> NoPacket]

\* A Session not constructed (yet).
NoSession ==
    [from |-> "none", dest |-> "none", holder |-> 0, bgPc |-> "none",
     buf |-> ZeroBuf, held |-> NoPacket]

\* The Sessions constructed so far.
Constructed == {i \in DOMAIN sess : sess[i].bgPc # "none"}

\* ------------------------------------------------------------------- Init

ServerStart ==
    /\ fwdPc = "recv"
    /\ tasks = [t \in TaskIds |-> IdleTask]
    /\ sess = [i \in 1..(MaxTasks * Len(endpoints)) |-> NoSession]
    /\ sessions = {}
    /\ readers = {}
    /\ chan = <<>>
    /\ retPc = "recv"
    /\ lastErr = NoErr
    /\ sendLog = {}
    /\ rxLog = <<>>
    /\ retLog = <<>>
    /\ enqLog = <<>>
    /\ inbound = {}
    /\ okKeys = {}

\* ------------------------------------------------- Server::run, forward loop

\* process_receive_socket: recv_from succeeds; the fan-out task is spawned.
ListenRecv(c, d) ==
    /\ fwdPc = "recv"
    /\ \E t \in TaskIds :
        /\ tasks[t].pc = "idle"
        /\ \A u \in TaskIds : u < t => tasks[u].pc # "idle"
        /\ LET r == RecvFrom(ZeroBuf, d) IN
           tasks' = [tasks EXCEPT ![t] =
                        [pc |-> "start", from |-> c,
                         packet |-> Slice(r.buf, r.size),
                         idx |-> 0, s |-> 0, bindFailed |-> FALSE,
                         rx |-> d]]
    /\ inbound' = inbound \cup {c}
    /\ fwdPc' = RunLoopAfter("Ok")
    /\ lastErr' = NoErr
    /\ UNCHANGED <<fixedVars, sess, sessions, readers,
                   chan, retPc, sendLog, rxLog, retLog, enqLog, okKeys>>

\* process_receive_socket: recv_from fails; `?` returns the error to run,
\* which logs it.
ListenRecvErr ==
    /\ fwdPc = "recv"
    /\ fwdPc' = RunLoopAfter("Err")
    /\ lastErr' = [kind |-> "listen_recv", sid |-> 0]
    /\ UNCHANGED <<fixedVars, tasks, sess, sessions,
                   readers, chan, retPc, sendLog, rxLog, retLog, enqLog,
                   inbound, okKeys>>

\* -------------------------------------- the fan-out task of one datagram

\* The pair the task is working on: (recv_addr, *dest).
TaskKey(t) == Key(tasks[t].from, endpoints[tasks[t].idx])

\* The number of the Session that task t constructs for its current endpoint.
SidOf(t) == (t - 1) * Len(endpoints) + tasks[t].idx

\* Mutant of Unlock: the MutexGuard is leaked.
UnlockNothing(ss, t) == ss

\* What unwinding or the end of an iteration drops: the MutexGuard of the
\* session and the read guard of the map.
Unlock(ss, t) ==
    [i \in DOMAIN ss |->
        IF ss[i].holder = t THEN [ss[i] EXCEPT !.holder = 0] ELSE ss[i]]

\* Lines 88-96: the endpoints snapshot, the packet slice and the debug! line.
TaskStart(t) ==
    /\ tasks[t].pc = "start"
    /\ tasks' = [tasks EXCEPT ![t] =
          IF DebugPanics(tasks[t].packet)
          THEN [@ EXCEPT !.pc = "panicked"]
          ELSE IF Len(endpoints) = 0
               THEN [@ EXCEPT !.pc = "done"]
               ELSE [@ EXCEPT !.pc = "ensure", !.idx = 1]]
    /\ lastErr' = NoErr
    /\ UNCHANGED <<fixedVars, fwdPc, sess, sessions, readers,
                   chan, retPc, sendLog, rxLog, retLog, enqLog, inbound,
                   okKeys>>

\* ensure_session, lines 175-180: under the shared lock, contains_key. The
\* read guard lives within the block, which awaits nothing, and the
\* exclusive lock is only ever held within TaskInsert's step, so the shared
\* lock is always granted here.
TaskEnsureCheck(t) ==
    /\ tasks[t].pc = "ensure"
    /\ IF EnsureFound(sessions, TaskKey(t))
       THEN /\ tasks' = [tasks EXCEPT ![t].pc = "lookup"]
            /\ okKeys' = okKeys \cup {TaskKey(t)}
       ELSE /\ tasks' = [tasks EXCEPT ![t].pc = "new"]
            /\ okKeys' = okKeys
    /\ lastErr' = NoErr
    /\ UNCHANGED <<fixedVars, fwdPc, sess, sessions, readers,
                   chan, retPc, sendLog, rxLog, retLog, enqLog, inbound>>

\* ensure_session, line 181: Session::new binds 0.0.0.0:0 and, when the bind
\* succeeds, spawns the Session's receive task. When it fails, `?` returns
\* the error and the fan-out task logs it (line 108).
TaskSessionNew(t, ok) ==
    /\ tasks[t].pc = "new"
    /\ IF ok
       THEN /\ sess' = [sess EXCEPT ![SidOf(t)] =
                         NewSession(tasks[t].from, endpoints[tasks[t].idx])]
            /\ tasks' = [tasks EXCEPT ![t].pc = "insert",
                                      ![t].s = SidOf(t)]
       ELSE /\ sess' = sess
            /\ tasks' = [tasks EXCEPT ![t].pc = "lookup",
                                      ![t].bindFailed = TRUE]
    /\ lastErr' = NoErr
    /\ UNCHANGED <<fixedVars, fwdPc, sessions, readers, chan,
                   retPc, sendLog, rxLog, retLog, enqLog, inbound, okKeys>>

\* ensure_session, lines 182-186: under the exclusive lock, insert. The
\* write guard is taken once no read guard is alive and is dropped before
\* the next await.
TaskInsert(t) ==
    /\ tasks[t].pc = "insert"
    /\ WriteLockFree(readers)
    /\ sessions' = Insert(sessions, TaskKey(t), tasks[t].s)
    /\ sess' = DropReplaced(sess, sessions, TaskKey(t))
    /\ okKeys' = okKeys \cup {TaskKey(t)}
    /\ tasks' = [tasks EXCEPT ![t].pc = "lookup", ![t].s = 0]
    /\ lastErr' = NoErr
    /\ UNCHANGED <<fixedVars, fwdPc, readers, chan,
                   retPc, sendLog, rxLog, retLog, enqLog, inbound>>

\* Lines 111-112: sessions.read().await, then map.get(&key).unwrap(), which
\* panics when the key is absent.
TaskLookup(t) ==
    /\ tasks[t].pc = "lookup"
    /\ IF ContainsKey(sessions, TaskKey(t))
       THEN /\ readers' = readers \cup {t}
            /\ tasks' = [tasks EXCEPT ![t].pc = "lock",
                                      ![t].s = Get(sessions, TaskKey(t))]
       ELSE /\ readers' = readers
            /\ tasks' = [tasks EXCEPT ![t].pc = "panicked"]
    /\ lastErr' = NoErr
    /\ UNCHANGED <<fixedVars, fwdPc, sess, sessions, chan,
                   retPc, sendLog, rxLog, retLog, enqLog, inbound, okKeys>>

\* Line 112: .lock().await on the entry's Mutex; the task is then inside
\* send_to until TaskSendTo.
TaskLock(t) ==
    /\ tasks[t].pc = "lock"
    /\ MutexFree(sess[tasks[t].s])
    /\ sess' = [sess EXCEPT ![tasks[t].s].holder = t]
    /\ tasks' = [tasks EXCEPT ![t].pc = "send"]
    /\ lastErr' = NoErr
    /\ UNCHANGED <<fixedVars, fwdPc, sessions, readers, chan,
                   retPc, sendLog, rxLog, retLog, enqLog, inbound, okKeys>>

\* Lines 113-116 and Session::send_to (267-275): the debug! line, the
\* socket's send_to to self.dest (an error is logged), then the guards are
\* dropped and the for loop goes to the next endpoint.
TaskSendTo(t, ok) ==
    /\ tasks[t].pc = "send"
    /\ IF DebugPanics(tasks[t].packet)
       THEN /\ tasks' = [tasks EXCEPT ![t].pc = "panicked"]
            /\ sendLog' = sendLog
       ELSE /\ tasks' = [tasks EXCEPT
                  ![t].pc = IF tasks[t].idx < Len(endpoints)
                            THEN "ensure" ELSE "done",
                  ![t].idx = IF tasks[t].idx < Len(endpoints)
                             THEN tasks[t].idx + 1 ELSE tasks[t].idx,
                  ![t].s = 0]
            /\ sendLog' = sendLog \cup
                  {[task |-> t,
                    from |-> sess[tasks[t].s].from,
                    dest |-> sess[tasks[t].s].dest,
                    buf |-> tasks[t].packet]}
    /\ sess' = Unlock(sess, t)
    /\ readers' = readers \ {t}
    /\ lastErr' = NoErr
    /\ UNCHANGED <<fixedVars, fwdPc, sessions, chan, retPc,
                   rxLog, retLog, enqLog, inbound, okKeys>>

\* ------------------------------- Session::run, the Session's receive task

\* Mutant of Dequeue: the newest Packet is taken first.
DequeueNewest(q) == [head |-> q[Len(q)], rest |-> SubSeq(q, 1, Len(q) - 1)]

\* receive_packets.recv(): the oldest Packet of the queue.
Dequeue(q) == [head |-> Head(q), rest |-> Tail(q)]

\* Lines 240-249: recv_from on the ephemeral socket succeeds; the debug!
\* line; the Packet of lines 251-254 is built and the task goes to send it.
SessionRecv(sid, d) ==
    /\ sess[sid].bgPc = "recv"
    /\ Len(rxLog) < MaxReplies
    /\ LET r == RecvFrom(sess[sid].buf, d)
           packet == Slice(r.buf, r.size)
       IN  /\ rxLog' = Append(rxLog, [sid |-> sid, bytes |-> d,
                                      built |-> ~DebugPanics(packet)])
           /\ sess' = [sess EXCEPT ![sid] =
              IF DebugPanics(packet)
              THEN [@ EXCEPT !.buf = r.buf, !.bgPc = "panicked"]
              ELSE [@ EXCEPT !.buf = r.buf, !.bgPc = "send",
                             !.held = [dest |-> sess[sid].from,
                                       contents |-> packet,
                                       rx |-> Len(rxLog) + 1]]]
    /\ lastErr' = NoErr
    /\ UNCHANGED <<fixedVars, fwdPc, tasks, sessions, readers,
                   chan, retPc, sendLog, retLog, enqLog, inbound, okKeys>>

\* Line 241: recv_from fails; the error is logged.
SessionRecvErr(sid) ==
    /\ sess[sid].bgPc = "recv"
    /\ sess' = [sess EXCEPT ![sid].bgPc = SessionLoopAfter("Err")]
    /\ lastErr' = [kind |-> "session_recv", sid |-> sid]
    /\ UNCHANGED <<fixedVars, fwdPc, tasks, sessions, readers,
                   chan, retPc, sendLog, rxLog, retLog, enqLog, inbound,
                   okKeys>>

\* Lines 250-258: sender.send(packet).await. It waits while the channel is
\* full; it fails, and the failure is printed, when the Receiver is gone.
SessionEnqueue(sid) ==
    /\ sess[sid].bgPc = "send"
    /\ IF ChanClosed
       THEN /\ chan' = chan
            /\ enqLog' = enqLog
            /\ sess' = [sess EXCEPT ![sid].held = NoPacket,
                                    ![sid].bgPc = SessionLoopAfter("Err")]
            /\ lastErr' = [kind |-> "chan_send", sid |-> sid]
       ELSE /\ ChanHasRoom(chan)
            /\ chan' = Enqueue(chan, sess[sid].held)
            /\ enqLog' = Append(enqLog, sess[sid].held.rx)
            /\ sess' = [sess EXCEPT ![sid].held = NoPacket,
                                    ![sid].bgPc = SessionLoopAfter("Ok")]
            /\ lastErr' = NoErr
    /\ UNCHANGED <<fixedVars, fwdPc, tasks, sessions, readers,
                   retPc, sendLog, rxLog, retLog, inbound, okKeys>>

\* --------------------- process_receive_packet_channel, the return-path task

\* Lines 129-144: one round of the while-let loop: take a Packet, the debug!
\* line, send_to(packet.contents, packet.dest) on the listening socket's
\* send half; a send error is logged.
ReturnPathStep(ok) ==
    /\ retPc = "recv"
    /\ chan # <<>>
    /\ chan' = Dequeue(chan).rest
    /\ IF DebugPanics(Dequeue(chan).head.contents)
       THEN /\ retPc' = "panicked"
            /\ retLog' = retLog
            /\ lastErr' = NoErr
       ELSE /\ retPc' = ReturnLoopAfter(IF ok THEN "Ok" ELSE "Err")
            /\ retLog' = Append(retLog, Dequeue(chan).head)
            /\ lastErr' = IF ok THEN NoErr
                          ELSE [kind |-> "ret_send", sid |-> 0]
    /\ UNCHANGED <<fixedVars, fwdPc, tasks, sess, sessions,
                   readers, sendLog, rxLog, enqLog, inbound, okKeys>>

\* ------------------------------------------------ filters: Capture (read)

\* metadata::Value
Bytes(b) == [type |-> "Bytes", bytes |-> b]
Bool(b) == [type |-> "Bool", bool |-> b]

\* Option<Value>
None == [some |-> FALSE]
Some(v) == [some |-> TRUE, value |-> v]

\* ctx.metadata.insert(key, value)
MetadataInsert(md, key, value) ==
    [k \in DOMAIN md \cup {key} |-> IF k = key THEN value ELSE md[k]]

\* Whether lit occurs in b at position i.
OccursAt(b, lit, i) ==
    /\ i + Len(lit) - 1 <= Len(b)
    /\ \A j \in 1..Len(lit) : b[i + j - 1] = lit[j]

\* The first match of a byte-oriented pattern in contents: [some, from, to].
\* Two pattern shapes are modelled: [tail |-> n], the pattern ".{n}$" (n
\* bytes other than "\n" at the end of the text), and [lit |-> w], the
\* literal w.
RegexFind(pattern, b) ==
    IF "tail" \in DOMAIN pattern
    THEN IF /\ Len(b) >= pattern.tail
            /\ \A i \in (Len(b) - pattern.tail + 1)..Len(b) : b[i] # 10
         THEN [some |-> TRUE, from |-> Len(b) - pattern.tail + 1,
               to |-> Len(b)]
         ELSE [some |-> FALSE, from |-> 0, to |-> 0]
    ELSE LET at == {i \in 1..(Len(b) + 1) : OccursAt(b, pattern.lit, i)} IN
         IF at = {} THEN [some |-> FALSE, from |-> 0, to |-> 0]
         ELSE LET i == CHOOSE i \in at : \A j \in at : i <= j IN
              [some |-> TRUE, from |-> i, to |-> i + Len(pattern.lit) - 1]

\* The outcome of a capture: the captured value, the contents afterwards,
\* and the increment of metrics.packets_dropped_total.
Captured(v, contents) == [value |-> Some(v), contents |-> contents, dropped |-> 0]
Rejected(contents) == [value |-> None, contents |-> contents, dropped |-> 1]

\* The size guard of Prefix and Suffix: the payload holds at least size
\* bytes. When it fails the strategy counts a dropped packet and returns None.
IsValidSize(contents, size) == Len(contents) >= size

\* Mutant of SuffixCapture: the captured bytes are never removed.
SuffixCaptureNeverRemoves(size, remove, contents) ==
    IF ~IsValidSize(contents, size) THEN Rejected(contents)
    ELSE Captured(Bytes(SubSeq(contents, Len(contents) - size + 1,
                               Len(contents))),
                  contents)

\* Suffix { size, remove }: the last size bytes; with remove the payload is
\* truncated to drop them.
SuffixCapture(size, remove, contents) ==
    IF ~IsValidSize(contents, size) THEN Rejected(contents)
    ELSE LET index == Len(contents) - size IN
         Captured(Bytes(SubSeq(contents, index + 1, Len(contents))),
                  IF remove THEN SubSeq(contents, 1, index) ELSE contents)

\* Mutant of PrefixCapture: removal truncates the payload at the end
\* instead of dropping its first size bytes.
PrefixCaptureTruncates(size, remove, contents) ==
    IF ~IsValidSize(contents, size) THEN Rejected(contents)
    ELSE Captured(Bytes(SubSeq(contents, 1, size)),
                  IF remove THEN SubSeq(contents, 1, Len(contents) - size)
                  ELSE contents)

\* Prefix { size, remove }: the first size bytes; with remove the remaining
\* bytes are shifted to the front.
PrefixCapture(size, remove, contents) ==
    IF ~IsValidSize(contents, size) THEN Rejected(contents)
    ELSE Captured(Bytes(SubSeq(contents, 1, size)),
                  IF remove THEN SubSeq(contents, size + 1, Len(contents))
                  ELSE contents)

\* Mutant of RegexCapture: the matched bytes are cut out of the payload.
RegexCaptureRemoves(pattern, contents) ==
    LET m == RegexFind(pattern, contents) IN
    IF m.some
    THEN Captured(Bytes(SubSeq(contents, m.from, m.to)),
                  SubSeq(contents, 1, m.from - 1)
                      \o SubSeq(contents, m.to + 1, Len(contents)))
    ELSE Rejected(contents)

\* Regex { pattern }: the bytes of the first match; the payload is left as
\* it is.
RegexCapture(pattern, contents) ==
    LET m == RegexFind(pattern, contents) IN
    IF m.some
    THEN Captured(Bytes(SubSeq(contents, m.from, m.to)), contents)
    ELSE Rejected(contents)

\* CaptureStrategy::capture(&self, contents, metrics), dispatched on the
\* strategy (the Box<dyn CaptureStrategy> of the filter).
StrategyCapture(strategy, contents) ==
    IF strategy.kind = "Suffix"
    THEN SuffixCapture(strategy.size, strategy.remove, contents)
    ELSE IF strategy.kind = "Prefix"
    THEN PrefixCapture(strategy.size, strategy.remove, contents)
    ELSE RegexCapture(strategy.pattern, contents)

\* Capture::new: is_present_key is metadata_key + "/is_present".
CaptureNew(config) ==
    [capture |-> config.strategy,
     metadata_key |-> config.metadata_key,
     is_present_key |-> config.metadata_key \o "/is_present",
     packets_dropped_total |-> 0]

\* ReadContext::new(endpoints, source, contents)
ReadContextNew(eps, source, contents, md) ==
    [endpoints |-> eps, source |-> source, contents |-> contents,
     metadata |-> md]

\* Mutant of IsPresentValue: is_present is set to true whatever happened.
IsPresentAlwaysTrue(capture) == Bool(TRUE)

\* The is_present entry Capture::read inserts (lines 68-69).
IsPresentValue(capture) == Bool(capture.some)

\* Capture::read (lines 66-77). resp is "Accept" for Some(ctx.into()) and
\* "Drop" for None; ctx is the context as read leaves it (on Drop, the
\* context that is dropped with the call); dropped is the increment of the
\* filter's packets_dropped_total.
CaptureRead(filter, ctx) ==
    LET c    == StrategyCapture(filter.capture, ctx.contents)
        ctx1 == [ctx EXCEPT !.contents = c.contents,
                            !.metadata = MetadataInsert(ctx.metadata,
                                            filter.is_present_key,
                                            IsPresentValue(c.value))]
    IN  IF c.value.some
        THEN [resp |-> "Accept",
              ctx |-> [ctx1 EXCEPT !.metadata =
                          MetadataInsert(ctx1.metadata, filter.metadata_key,
                                         c.value.value)],
              dropped |-> c.dropped]
        ELSE [resp |-> "Drop", ctx |-> ctx1, dropped |-> c.dropped]

\* Mutant of MetricsAfter: the strategy counts on a Metrics of its own.
MetricsUntouched(filter, c) == filter

\* The filter after a read: the strategy is given &self.metrics (line 67),
\* so what it counts is counted on the filter's packets_dropped_total.
MetricsAfter(filter, c) ==
    [filter EXCEPT !.packets_dropped_total = @ + c.dropped]

\* WriteContext::new(endpoint, source, contents), with the metadata the
\* return path carries.
WriteContextNew(endpoint, source, contents, md) ==
    [endpoint |-> endpoint, source |-> source, contents |-> contents,
     metadata |-> md]

\* Mutant of CaptureWrite: the write direction captures as read does.
CaptureWriteAsRead(filter, ctx) ==
    LET c == StrategyCapture(filter.capture, ctx.contents) IN
    IF c.value.some
    THEN [resp |-> "Accept",
          ctx |-> [ctx EXCEPT !.contents = c.contents,
                              !.metadata = MetadataInsert(ctx.metadata,
                                              filter.metadata_key,
                                              c.value.value)],
          dropped |-> c.dropped]
    ELSE [resp |-> "Drop", ctx |-> ctx, dropped |-> c.dropped]

\* Filter::write for Capture: impl Filter for Capture (lines 64-78) defines
\* read only, so write is the trait's provided method, which passes the
\* context through: Some(ctx.into()).
CaptureWrite(filter, ctx) == [resp |-> "Accept", ctx |-> ctx, dropped |-> 0]

\* The filter chain's read pass: the filters in order, the context threaded
\* through; the first Drop ends the pass.
RECURSIVE ChainRead(_, _)
ChainRead(chain, ctx) ==
    IF chain = <<>> THEN [resp |-> "Accept", ctx |-> ctx]
    ELSE LET r == CaptureRead(Head(chain), ctx) IN
         IF r.resp = "Drop" THEN [resp |-> "Drop", ctx |-> r.ctx]
         ELSE ChainRead(Tail(chain), r.ctx)

\* The filter of tests::read (lines 145-153): Suffix, size 3, remove.
TestConfig ==
    [metadata_key |-> "TOKEN",
     strategy |-> [kind |-> "Suffix", size |-> 3, remove |-> TRUE]]

NoContext == [endpoints |-> <<>>, source |-> "none", contents |-> <<>>,
              metadata |-> [k \in {} |-> None]]

NoResponse == [resp |-> "none", ctx |-> NoContext]

NoWriteContext == [endpoint |-> "none", source |-> "none", contents |-> <<>>,
                   metadata |-> [k \in {} |-> None]]

NoWriteResponse == [resp |-> "none", ctx |-> NoWriteContext]

\* Metrics::new(): the counters start at zero.
MetricsNew == [packets_dropped_total |-> 0]

\* No read or write has been made on the filter.
FilterUnused ==
    /\ capIn = NoContext
    /\ capOut = NoResponse
    /\ capReads = 0
    /\ capWIn = NoWriteContext
    /\ capWOut = NoWriteResponse
    /\ capWrites = 0
    /\ capDrops = 0

\* The variables of a strategy used on its own, in a run that does not.
StrategyIdle ==
    /\ strat = TestConfig.strategy
    /\ stratBuf = <<>>
    /\ stratMetrics = MetricsNew
    /\ stratLog = <<>>

\* The capture variables of a run in which no filter is exercised.
CaptureIdle ==
    /\ capFilter = CaptureNew(TestConfig)
    /\ FilterUnused
    /\ StrategyIdle

\* filter.read(ctx) on the filter instance: one datagram through Capture.
CaptureReadCall(contents, md) ==
    /\ capReads < MaxReads
    /\ LET ctx == ReadContextNew(endpoints, "c1", contents, md)
           r   == CaptureRead(capFilter, ctx)
       IN  /\ capIn' = ctx
           /\ capOut' = [resp |-> r.resp, ctx |-> r.ctx]
           /\ capFilter' = MetricsAfter(capFilter, r)
           /\ capDrops' = IF r.resp = "Drop" THEN capDrops + 1 ELSE capDrops
    /\ capReads' = capReads + 1
    /\ UNCHANGED <<serverVars, capWIn, capWOut, capWrites,
                   strat, stratBuf, stratMetrics, stratLog>>

\* filter.write(ctx) on the filter instance: one reply through Capture.
CaptureWriteCall(contents, md) ==
    /\ capWrites < MaxWrites
    /\ LET ctx == WriteContextNew(endpoints[1], "c1", contents, md)
           w   == CaptureWrite(capFilter, ctx)
       IN  /\ capWIn' = ctx
           /\ capWOut' = [resp |-> w.resp, ctx |-> w.ctx]
           /\ capFilter' = MetricsAfter(capFilter, w)
    /\ capWrites' = capWrites + 1
    /\ UNCHANGED <<serverVars, capIn, capOut, capReads, capDrops,
                   strat, stratBuf, stratMetrics, stratLog>>

\* strategy.capture(&mut contents, &metrics) on the buffer, as the tests
\* end_capture, beginning_capture and regex_capture call it.
StrategyCaptureCall ==
    /\ Len(stratLog) < MaxCaptures
    /\ LET c == StrategyCapture(strat, stratBuf) IN
       /\ stratBuf' = c.contents
       /\ stratMetrics' = MetricsAfter(stratMetrics, c)
       /\ stratLog' = Append(stratLog,
                             [strategy |-> strat, before |-> stratBuf,
                              after |-> c.contents, value |-> c.value,
                              dropped |-> c.dropped])
    /\ UNCHANGED <<serverVars, capFilter, capIn, capOut, capReads, capWIn,
                   capWOut, capWrites, capDrops, strat>>

\* end.remove = true (tests, lines 216 and 236): the remove flag of a
\* Prefix or Suffix is set between captures on the same buffer.
SetRemove(r) ==
    /\ strat.kind \in {"Prefix", "Suffix"}
    /\ strat.remove # r
    /\ strat' = [strat EXCEPT !.remove = r]
    /\ UNCHANGED <<serverVars, capFilter, capIn, capOut, capReads, capWIn,
                   capWOut, capWrites, capDrops, stratBuf, stratMetrics,
                   stratLog>>

\* ------------------------------------------------- inputs of Capture runs

CaptureBytes == {97, 10}

CapturePayloads == UNION {[1..n -> CaptureBytes] : n \in 0..MaxLen}

CaptureSizes == 0..(MaxLen + 1) \cup {HugeSize}

CaptureStrategies ==
    {[kind |-> k, size |-> n, remove |-> r] :
        k \in {"Prefix", "Suffix"}, n \in CaptureSizes, r \in BOOLEAN}
    \cup {[kind |-> "Regex", pattern |-> pt] :
        pt \in {[tail |-> 1], [tail |-> 2], [lit |-> <<97>>],
                [lit |-> <<10, 97>>]}}

\* TOKEN_KEY (tests, line 106) and the default key CAPTURED_BYTES.
CaptureKeys == {"TOKEN", "quilkin.dev/captured_bytes"}

CaptureConfigs ==
    {[metadata_key |-> k, strategy |-> st] :
        k \in CaptureKeys, st \in CaptureStrategies}

\* The metadata a context may carry into the filter: none, or an entry an
\* earlier filter left under one of the filter's two keys.
MetadataChoices(filter) ==
    {[k \in {} |-> None],
     [k \in {filter.metadata_key} |-> Bytes(<<122>>)],
     [k \in {filter.is_present_key} |-> Bool(TRUE)]}

\* ---------------------------------------------------------- specification

\* The forward path: datagrams arrive on the listening socket and are fanned
\* out; no datagram arrives on a Session socket.
Init ==
    /\ debugEnabled \in BOOLEAN
    /\ endpoints \in EndpointConfigs
    /\ ServerStart
    /\ CaptureIdle

Next ==
    \/ \E c \in Clients, d \in Datagrams : ListenRecv(c, d)
    \/ \E t \in TaskIds : TaskStart(t)
    \/ \E t \in TaskIds : TaskEnsureCheck(t)
    \/ \E t \in TaskIds, ok \in BOOLEAN : TaskSessionNew(t, ok)
    \/ \E t \in TaskIds : TaskInsert(t)
    \/ \E t \in TaskIds : TaskLookup(t)
    \/ \E t \in TaskIds : TaskLock(t)
    \/ \E t \in TaskIds, ok \in BOOLEAN : TaskSendTo(t, ok)

Spec == Init /\ [][Next]_vars

\* One step of fan-out task t.
TaskStep(t) ==
    \/ TaskStart(t)
    \/ TaskEnsureCheck(t)
    \/ \E ok \in BOOLEAN : TaskSessionNew(t, ok)
    \/ TaskInsert(t)
    \/ TaskLookup(t)
    \/ TaskLock(t)
    \/ \E ok \in BOOLEAN : TaskSendTo(t, ok)

\* The forward path on a runtime that keeps polling every spawned task:
\* a fan-out task that can take a step eventually takes it (every bind and
\* send_to completes, every lock that stays free is granted).
LiveSpec == Init /\ [][Next]_vars /\ \A t \in TaskIds : WF_vars(TaskStep(t))

\* The whole server, with replies arriving on the Session sockets and I/O
\* errors on every socket; the listening socket receives MaxReturnTasks
\* datagrams.
Spawned == Cardinality({t \in TaskIds : tasks[t].pc # "idle"})

ReturnNext ==
    \/ \E c \in Clients, d \in Datagrams :
          Spawned < MaxReturnTasks /\ ListenRecv(c, d)
    \/ ListenRecvErr
    \/ \E t \in TaskIds : TaskStart(t)
    \/ \E t \in TaskIds : TaskEnsureCheck(t)
    \/ \E t \in TaskIds, ok \in BOOLEAN : TaskSessionNew(t, ok)
    \/ \E t \in TaskIds : TaskInsert(t)
    \/ \E t \in TaskIds : TaskLookup(t)
    \/ \E t \in TaskIds : TaskLock(t)
    \/ \E t \in TaskIds, ok \in BOOLEAN : TaskSendTo(t, ok)
    \/ \E sid \in Constructed, d \in Datagrams : SessionRecv(sid, d)
    \/ \E sid \in Constructed : SessionRecvErr(sid)
    \/ \E sid \in Constructed : SessionEnqueue(sid)
    \/ \E ok \in BOOLEAN : ReturnPathStep(ok)

ReturnSpec == Init /\ [][ReturnNext]_vars

\* The race of two ensure_session calls with the return path running: two
\* datagrams of one client for one endpoint, every bind succeeding, and
\* replies arriving on the sockets of the Sessions constructed.
RaceInit ==
    /\ debugEnabled \in BOOLEAN
    /\ endpoints = <<"u1">>
    /\ ServerStart
    /\ CaptureIdle

RaceNext ==
    \/ \E d \in Datagrams : ListenRecv("c1", d)
    \/ \E t \in TaskIds : TaskStart(t)
    \/ \E t \in TaskIds : TaskEnsureCheck(t)
    \/ \E t \in TaskIds : TaskSessionNew(t, TRUE)
    \/ \E t \in TaskIds : TaskInsert(t)
    \/ \E t \in TaskIds : TaskLookup(t)
    \/ \E t \in TaskIds : TaskLock(t)
    \/ \E t \in TaskIds : TaskSendTo(t, TRUE)
    \/ \E sid \in Constructed, d \in Datagrams :
          Len(rxLog) < MaxRaceReplies /\ SessionRecv(sid, d)
    \/ \E sid \in Constructed : SessionEnqueue(sid)
    \/ ReturnPathStep(TRUE)

RaceSpec == RaceInit /\ [][RaceNext]_vars

\* Capture alone: one filter instance of any configuration reads datagrams.
CaptureInit ==
    /\ debugEnabled = FALSE
    /\ endpoints = <<"u1">>
    /\ ServerStart
    /\ capFilter \in {CaptureNew(c) : c \in CaptureConfigs}
    /\ FilterUnused
    /\ StrategyIdle

CaptureNext ==
    \E contents \in CapturePayloads, md \in MetadataChoices(capFilter) :
        CaptureReadCall(contents, md)

CaptureSpec == CaptureInit /\ [][CaptureNext]_vars

\* The reads made between the writes of WriteSpec: one the filter may drop
\* and one it may accept.
ReadProbes == {<<>>, <<97, 10, 97>>}

\* Capture in both directions: one filter instance of any configuration
\* passes replies through write, between reads of datagrams.
WriteNext ==
    \/ \E contents \in CapturePayloads, md \in MetadataChoices(capFilter) :
          CaptureWriteCall(contents, md)
    \/ \E contents \in ReadProbes :
          CaptureReadCall(contents, [k \in {} |-> None])

WriteSpec == CaptureInit /\ [][WriteNext]_vars

\* A strategy on its own: any strategy captures repeatedly from one buffer,
\* its remove flag set in between.
StrategyInit ==
    /\ debugEnabled = FALSE
    /\ endpoints = <<"u1">>
    /\ ServerStart
    /\ capFilter = CaptureNew(TestConfig)
    /\ FilterUnused
    /\ strat \in CaptureStrategies
    /\ stratBuf \in CapturePayloads
    /\ stratMetrics = MetricsNew
    /\ stratLog = <<>>

StrategyNext ==
    \/ StrategyCaptureCall
    \/ \E r \in BOOLEAN : SetRemove(r)

StrategySpec == StrategyInit /\ [][StrategyNext]_vars

\* ------------------------------------------------------------- properties

Range(q) == {q[i] : i \in 1..Len(q)}

IsPrefix(p, q) == Len(p) <= Len(q) /\ \A i \in 1..Len(p) : p[i] = q[i]

Ended(t) == tasks[t].pc \in {"done", "panicked"}

\* Task t invoked send_to on a session of (its client, e) with the bytes of
\* the datagram it was spawned for.
SentTo(t, e) ==
    \E r \in sendLog : /\ r.task = t
                       /\ r.from = tasks[t].from
                       /\ r.dest = e
                       /\ r.buf = tasks[t].rx

\* C1: every datagram received on the listening socket, whatever its bytes,
\* is passed to send_to on the session of (client, e) for every configured
\* endpoint e, byte for byte, provided the socket operations succeed. Stated
\* on fan-out tasks that have ended: a task that has ended and met no socket
\* failure has made every one of these send_to calls.
C1_ForwardPath ==
    \A t \in TaskIds :
        (Ended(t) /\ ~tasks[t].bindFailed) =>
            \A i \in 1..Len(endpoints) : SentTo(t, endpoints[i])

\* The Packet the Session task builds from the i-th datagram of rxLog.
PacketOf(i) ==
    [dest |-> sess[rxLog[i].sid].from, contents |-> rxLog[i].bytes, rx |-> i]

\* Packet p is held by its Session task, queued, or was passed to the
\* listening socket's send_to.
InFlightOrSent(p) ==
    \/ \E sid \in Constructed : sess[sid].held = p
    \/ p \in Range(chan)
    \/ p \in Range(retLog)

\* C2: every datagram received on the ephemeral socket of the Session of
\* (C, U) becomes a Packet with the received bytes and dest C, which is
\* enqueued and sent to C by the return-path task; and no Packet is sent to
\* an address that was not the source of an earlier inbound datagram.
C2_ReturnPath ==
    /\ \A i \in 1..Len(rxLog) : InFlightOrSent(PacketOf(i))
    /\ \A p \in Range(retLog) : p.dest \in inbound

\* The filter chain of the deployment: one Capture filter.
ConfiguredChain == <<CaptureNew(TestConfig)>>

ChainDrops(source, dgram) ==
    ChainRead(ConfiguredChain,
              ReadContextNew(endpoints, source, dgram,
                             [k \in {} |-> None])).resp = "Drop"

\* C3: a datagram for which the filter chain's read pass returns Drop is
\* never passed to send_to on any Session.
C3_DroppedNeverSent ==
    \A r \in sendLog : ~ChainDrops(r.from, tasks[r.task].rx)

\* Session sid has been inserted in the registry (it is no longer in the
\* hands of the ensure_session call that constructed it).
Inserted(sid) ==
    \A t \in TaskIds : ~(tasks[t].pc = "insert" /\ tasks[t].s = sid)

SamePair(i, j) == sess[i].from = sess[j].from /\ sess[i].dest = sess[j].dest

\* C4: the registry holds at most one entry per (client, upstream) key, and
\* an entry for every key for which an ensure_session call returned Ok.
C4_RegistryEntries ==
    /\ \A e1, e2 \in sessions : e1.key = e2.key => e1 = e2
    /\ \A k \in okKeys : ContainsKey(sessions, k)

\* Two ensure_session calls raced on one key and both have inserted.
C4_Witness ==
    \E i, j \in Constructed :
        i # j /\ SamePair(i, j) /\ Inserted(i) /\ Inserted(j)

\* The Sessions of a pair whose socket and receive task are alive.
AliveSessions(c, u) ==
    {i \in Constructed :
        sess[i].from = c /\ sess[i].dest = u /\ sess[i].bgPc # "panicked"}

\* C5: at every moment at most one Session is alive per (client, upstream)
\* pair.
C5_OneSessionPerPair ==
    \A c \in Clients, u \in Upstreams : Cardinality(AliveSessions(c, u)) <= 1

InSendTo(t) == tasks[t].pc = "send"

\* C6: no two fan-out tasks are inside send_to for the same (client,
\* upstream) pair at once.
C6_SendToExclusive ==
    \A t1, t2 \in TaskIds :
        (t1 # t2 /\ InSendTo(t1) /\ InSendTo(t2)) => TaskKey(t1) # TaskKey(t2)

\* One task is inside send_to for a pair while another holds a freshly
\* constructed Session for the same pair and waits to insert it.
C6_Witness ==
    \E t1, t2 \in TaskIds :
        /\ InSendTo(t1)
        /\ tasks[t2].pc = "insert"
        /\ TaskKey(t1) = TaskKey(t2)

\* Two tasks are inside send_to at once, for different pairs.
C6_OverlapAcrossPairs ==
    \E t1, t2 \in TaskIds :
        InSendTo(t1) /\ InSendTo(t2) /\ TaskKey(t1) # TaskKey(t2)

\* C7: the return-path task sends the Packets in exactly the order in which
\* they were enqueued on the channel, across all Sessions.
C7_ReturnFifo ==
    IsPrefix([i \in 1..Len(retLog) |-> retLog[i].rx], enqLog)

\* Two Packets of different Sessions were sent, enqueued in the order
\* opposite to the one in which their datagrams arrived.
C7_Witness ==
    /\ Len(retLog) >= 2
    /\ retLog[1].rx > retLog[2].rx
    /\ rxLog[retLog[1].rx].sid # rxLog[retLog[2].rx].sid

\* C8: the channel never holds more Packets than its capacity; a Session
\* task waiting to enqueue holds its Packet and has read nothing from its
\* socket since; no Packet a Session task built is discarded.
C8_Backpressure ==
    /\ Len(chan) <= ChannelCapacity
    /\ \A sid \in Constructed :
          sess[sid].bgPc = "send" =>
              /\ sess[sid].held # NoPacket
              /\ \A j \in 1..Len(rxLog) :
                    rxLog[j].sid = sid => j <= sess[sid].held.rx
    /\ \A i \in 1..Len(rxLog) :
          rxLog[i].built => InFlightOrSent(PacketOf(i))

\* The channel is full and a Session task waits with its Packet.
C8_Witness ==
    /\ Len(chan) = ChannelCapacity
    /\ \E sid \in Constructed :
          sess[sid].bgPc = "send" /\ sess[sid].held # NoPacket

\* C9: an I/O error ends none of the three loops: after a recv error on the
\* listening socket the forward loop is at recv again; after a recv error or
\* a channel-send failure the Session task is at recv again; after a send
\* error the return-path task is at recv for the next Packet.
C9_ErrorsNotFatal ==
    /\ fwdPc # "exited"
    /\ retPc # "exited"
    /\ \A sid \in Constructed : sess[sid].bgPc # "exited"
    /\ lastErr.kind = "listen_recv" => fwdPc = "recv"
    /\ lastErr.kind \in {"session_recv", "chan_send"} =>
          sess[lastErr.sid].bgPc = "recv"
    /\ lastErr.kind = "ret_send" => retPc = "recv"

\* A Session task has just met a recv error, after an earlier Packet of the
\* same Session went through.
C9_Witness ==
    /\ lastErr.kind = "session_recv"
    /\ \E p \in Range(retLog) : rxLog[p.rx].sid = lastErr.sid

\* What the strategy of the filter captures from the context of the latest
\* read.
LastCapture == StrategyCapture(capFilter.capture, capIn.contents)

HasKey(md, k) == k \in DOMAIN md

\* C10: Capture::read returns Accept exactly when the strategy returns
\* Some(v); then the returned metadata maps metadata_key to v and the
\* is_present key to Bool(true); when the strategy returns None, read
\* returns Drop, with the is_present key set to Bool(false) and nothing
\* inserted under metadata_key.
C10_CaptureRead ==
    capOut.resp # "none" =>
        LET key == capFilter.metadata_key
            isp == capFilter.metadata_key \o "/is_present"
            out == capOut.ctx.metadata
        IN  /\ (capOut.resp = "Accept") = LastCapture.value.some
            /\ capOut.resp \in {"Accept", "Drop"}
            /\ HasKey(out, isp)
            /\ LastCapture.value.some =>
                  /\ HasKey(out, key)
                  /\ out[key] = LastCapture.value.value
                  /\ out[isp] = Bool(TRUE)
            /\ ~LastCapture.value.some =>
                  /\ out[isp] = Bool(FALSE)
                  /\ HasKey(out, key) = HasKey(capIn.metadata, key)
                  /\ HasKey(out, key) => out[key] = capIn.metadata[key]

\* A read was dropped whose context came in with the is_present key true.
C10_Witness ==
    /\ capOut.resp = "Drop"
    /\ HasKey(capIn.metadata, capFilter.is_present_key)

\* The capture calls of stratLog made with a strategy of kind k on a payload
\* of at least the strategy's size.
SizedCalls(k) ==
    {i \in 1..Len(stratLog) :
        /\ stratLog[i].strategy.kind = k
        /\ Len(stratLog[i].before) >= stratLog[i].strategy.size}

\* C11: Suffix capture, for every size and every payload p with
\* len(p) >= size: the captured value is Bytes of the last size bytes of p;
\* with remove the payload afterwards is p without them (payload afterwards
\* followed by the token is p), without remove it is p. Consequently a
\* capture without remove followed directly by one with remove on the same
\* buffer yields the same token twice.
C11_SuffixCapture ==
    /\ \A i \in SizedCalls("Suffix") :
          LET e == stratLog[i] IN
          /\ e.value.some
          /\ e.value.value.type = "Bytes"
          /\ Len(e.value.value.bytes) = e.strategy.size
          /\ \A j \in 1..e.strategy.size :
                e.value.value.bytes[j] =
                    e.before[Len(e.before) - e.strategy.size + j]
          /\ e.strategy.remove => e.after \o e.value.value.bytes = e.before
          /\ ~e.strategy.remove => e.after = e.before
    /\ \A i, j \in SizedCalls("Suffix") :
          (j = i + 1 /\ ~stratLog[i].strategy.remove
                     /\ stratLog[j].strategy.remove) =>
              stratLog[j].value = stratLog[i].value

\* tests::end_capture: a Suffix captured without remove and then with
\* remove from one buffer longer than its size.
C11_Witness ==
    /\ Len(stratLog) = 2
    /\ stratLog[1].strategy.kind = "Suffix"
    /\ stratLog[1].strategy.size >= 1
    /\ Len(stratLog[1].before) > stratLog[1].strategy.size
    /\ ~stratLog[1].strategy.remove
    /\ stratLog[2].strategy.remove
    /\ Len(stratLog[2].after) < Len(stratLog[1].before)

\* C12: Prefix capture, for every size and every payload p with
\* len(p) >= size: the captured value is Bytes of the first size bytes of p;
\* with remove the payload afterwards is the remaining bytes in their
\* order (the token followed by the payload afterwards is p), without
\* remove it is p.
C12_PrefixCapture ==
    \A i \in SizedCalls("Prefix") :
        LET e == stratLog[i] IN
        /\ e.value.some
        /\ e.value.value.type = "Bytes"
        /\ Len(e.value.value.bytes) = e.strategy.size
        /\ \A j \in 1..e.strategy.size : e.value.value.bytes[j] = e.before[j]
        /\ e.strategy.remove => e.value.value.bytes \o e.after = e.before
        /\ ~e.strategy.remove => e.after = e.before

\* tests::beginning_capture: a Prefix captured with remove from a payload
\* whose remaining bytes differ from its leading bytes.
C12_Witness ==
    \E i \in SizedCalls("Prefix") :
        LET e == stratLog[i] IN
        /\ e.strategy.remove
        /\ e.strategy.size >= 1
        /\ Len(e.before) > e.strategy.size
        /\ e.after # SubSeq(e.before, 1, Len(e.after))

\* The filter's strategy is a Prefix or Suffix whose size exceeds the
\* payload of the latest read.
Undersized ==
    /\ capOut.resp # "none"
    /\ capFilter.capture.kind \in {"Prefix", "Suffix"}
    /\ Len(capIn.contents) < capFilter.capture.size

\* C13: for Prefix and Suffix with any size and any payload shorter than
\* size (the size may exceed the payload by far), the strategy returns None
\* and Capture::read returns Drop; after any sequence of reads on one filter
\* the filter's packets_dropped_total equals the number of reads that
\* returned Drop: each dropped read adds exactly 1, accepted reads nothing.
C13_UndersizedDrop ==
    /\ Undersized => /\ LastCapture.value = None
                     /\ LastCapture.dropped = 1
                     /\ capOut.resp = "Drop"
    /\ capFilter.packets_dropped_total = capDrops
    /\ capDrops <= capReads

\* tests::read_overflow_capture_size, twice over: a Suffix of the huge size
\* with remove has dropped two reads.
C13_Witness ==
    /\ Undersized
    /\ capFilter.capture.kind = "Suffix"
    /\ capFilter.capture.size = HugeSize
    /\ capFilter.capture.remove
    /\ Len(capIn.contents) = MaxLen
    /\ capDrops = 2

\* C14: the payload buffer is changed only by a successful Prefix or
\* Suffix capture with remove; a Regex capture, matching or not, a Prefix or
\* Suffix capture without remove, and any failed capture leave it byte for
\* byte as it was.
C14_PayloadFrame ==
    \A i \in 1..Len(stratLog) :
        LET e == stratLog[i] IN
        e.after # e.before =>
            /\ e.strategy.kind \in {"Prefix", "Suffix"}
            /\ e.strategy.remove
            /\ e.value.some

\* tests::regex_capture: a Regex matched part of a payload, and a second
\* capture was made on the buffer it left.
C14_Witness ==
    /\ Len(stratLog) = 2
    /\ stratLog[1].strategy.kind = "Regex"
    /\ stratLog[1].value.some
    /\ Len(stratLog[1].value.value.bytes) < Len(stratLog[1].before)
    /\ stratLog[2].before = stratLog[1].before

\* C15: for every Capture configuration and every WriteContext, write
\* returns Accept with the context as it came in, payload and metadata, and
\* never changes packets_dropped_total (which stays the number of dropped
\* reads).
C15_WritePassThrough ==
    /\ capWOut.resp # "none" =>
          /\ capWOut.resp = "Accept"
          /\ capWOut.ctx = capWIn
    /\ capFilter.packets_dropped_total = capDrops

\* A write passed through a payload the filter's strategy would reject,
\* carrying metadata under the filter's key, after the filter dropped a
\* read.
C15_Witness ==
    /\ capWOut.resp = "Accept"
    /\ ~StrategyCapture(capFilter.capture, capWIn.contents).value.some
    /\ HasKey(capWIn.metadata, capFilter.metadata_key)
    /\ capDrops >= 1

\* C16: errors at any step of the fan-out are logged and do not abort it:
\* whenever the task looks up the registry entry of (client, endpoint) after
\* ensure_session, the entry is there, also when ensure_session returned an
\* error (the bind failed), and the task goes on to the remaining endpoints.
\* A task whose debug! line panicked never reached a bind, so a task that
\* met a bind failure and panicked did so at the lookup.
C16_LookupFindsEntry ==
    \A t \in TaskIds :
        tasks[t].bindFailed =>
            /\ tasks[t].pc # "panicked"
            /\ Ended(t) => tasks[t].idx = Len(endpoints)

\* The listening socket can receive a datagram.
CanReceive == ENABLED (\E c \in Clients, d \in Datagrams : ListenRecv(c, d))

\* C17: the forward loop never awaits the fan-out task: it is back at
\* recv_from whatever the tasks spawned earlier are doing, and (while the
\* model has a task left to spawn) it can receive the next datagram.
C17_ListenerNeverWaits ==
    /\ fwdPc = "recv"
    /\ (\E t \in TaskIds : tasks[t].pc = "idle") => CanReceive

\* Two fan-out tasks are in flight at once: the first is blocked on a
\* session mutex the second holds inside send_to, and the loop is at recv.
C17_Witness ==
    /\ fwdPc = "recv"
    /\ tasks[1].pc = "lock"
    /\ ~MutexFree(sess[tasks[1].s])
    /\ tasks[2].pc = "send"

\* Task t returns from ensure_session in this step, having found the pair.
ReturnsOnExisting(t) ==
    /\ tasks[t].pc = "ensure"
    /\ tasks'[t].pc # "ensure"
    /\ ContainsKey(sessions, TaskKey(t))

\* C18: ensure_session on a pair that has a registry entry returns Ok and
\* constructs no Session (no socket, no receive task), takes no exclusive
\* lock and leaves the registry as it is; a Session is constructed only by
\* a call that saw the pair absent; an entry once present is never removed.
C18_EnsureOnExisting ==
    [][ /\ \A t \in TaskIds :
             ReturnsOnExisting(t) =>
                 /\ tasks'[t].pc = "lookup"
                 /\ tasks'[t].bindFailed = tasks[t].bindFailed
                 /\ TaskKey(t) \in okKeys'
                 /\ sess' = sess
                 /\ sessions' = sessions
        /\ \A t \in TaskIds :
             (tasks'[t].pc = "new" /\ tasks[t].pc # "new") =>
                 (tasks[t].pc = "ensure" /\ ~ContainsKey(sessions, TaskKey(t)))
        /\ \A i \in DOMAIN sess :
             (sess[i] = NoSession /\ sess'[i] # NoSession) =>
                 \E t \in TaskIds : tasks[t].pc = "new" /\ SidOf(t) = i
        /\ \A e \in sessions : ContainsKey(sessions', e.key)
      ]_vars

\* A task returned from ensure_session on a pair whose entry another task
\* inserted, having constructed nothing itself.
C18_Witness ==
    \E t \in TaskIds :
        /\ tasks[t].pc = "lookup"
        /\ ~tasks[t].bindFailed
        /\ ContainsKey(sessions, TaskKey(t))
        /\ sess[SidOf(t)] = NoSession

\* Session i was inserted in the registry and is no longer its pair's entry.
Replaced(i) ==
    /\ i \in Constructed
    /\ Inserted(i)
    /\ Get(sessions, Key(sess[i].from, sess[i].dest)) # i

\* The receive task of Session i runs: it has not ended, other than by the
\* panic of its own debug! line on a datagram it received.
Running(i) ==
    \/ sess[i].bgPc \in {"recv", "send"}
    \/ /\ sess[i].bgPc = "panicked"
       /\ \E j \in 1..Len(rxLog) : rxLog[j].sid = i /\ ~rxLog[j].built

\* C19: when two ensure_session calls race on one pair, each constructs its
\* own Session; every insert makes its Session the pair's entry, so the
\* entry after both is the Session inserted last and the first is replaced;
\* the replaced Session's receive task is not stopped, and the Packets it
\* builds from datagrams on its socket are enqueued for the client.
C19_RacingInserts ==
    /\ [][ /\ \A t \in TaskIds :
                 (tasks[t].pc = "insert" /\ tasks'[t].pc # "insert") =>
                     /\ Get(sessions', TaskKey(t)) = tasks[t].s
                     /\ \A e \in sessions' :
                           e.key = TaskKey(t) => e.sid = tasks[t].s
            /\ \A i \in DOMAIN sess :
                 (Replaced(i)' /\ sess'[i].bgPc # sess[i].bgPc) =>
                     /\ tasks' = tasks
                     /\ Running(i)'
          ]_vars
    /\ [](\A i \in DOMAIN sess : Replaced(i) => Running(i))
    /\ [](\A j \in 1..Len(rxLog) :
             rxLog[j].built =>
                 /\ InFlightOrSent(PacketOf(j))
                 /\ PacketOf(j).dest = sess[rxLog[j].sid].from)

\* Both Sessions of a raced pair were inserted, and a Packet built by the
\* replaced one was sent to the client while its task is back at recv.
C19_Witness ==
    \E i, j \in Constructed :
        /\ i # j
        /\ SamePair(i, j)
        /\ Replaced(i)
        /\ Get(sessions, Key(sess[j].from, sess[j].dest)) = j
        /\ sess[i].bgPc = "recv"
        /\ \E p \in Range(retLog) : rxLog[p.rx].sid = i

\* Task t cannot go on until task u lets go of a lock: t waits for the
\* mutex u holds; t waits for the exclusive lock while u holds the shared
\* one; or, on a lock that serves waiters in order, t waits for the shared
\* lock behind u, which waits for the exclusive one.
WaitsFor(t, u) ==
    /\ t # u
    /\ \/ tasks[t].pc = "lock" /\ sess[tasks[t].s].holder = u
       \/ tasks[t].pc = "insert" /\ u \in readers
       \/ tasks[t].pc \in {"ensure", "lookup"} /\ tasks[u].pc = "insert"

\* The tasks reachable from those of S along at most n waits.
RECURSIVE WaitReach(_, _)
WaitReach(S, n) ==
    IF n = 0 THEN S
    ELSE WaitReach(S \cup {u \in TaskIds : \E t \in S : WaitsFor(t, u)},
                   n - 1)

WaitCycle(t) ==
    t \in WaitReach({u \in TaskIds : WaitsFor(t, u)}, MaxTasks)

\* The locks task t holds: the shared lock of the registry, session mutexes.
HoldsLock(t) ==
    \/ t \in readers
    \/ \E i \in DOMAIN sess : sess[i].holder = t

\* C20: deadlock freedom of the locking discipline: a task takes the
\* shared lock, then the entry's mutex, and holds both across send_to; it
\* takes the exclusive lock only in ensure_session, holding no other lock;
\* no reachable state has a cycle of tasks waiting on each other; and with
\* every bind and send_to completing and locks granted fairly, every
\* fan-out task that was spawned eventually ends.
C20_DeadlockFree ==
    /\ [](\A t \in TaskIds :
             /\ ~WaitCycle(t)
             /\ tasks[t].pc \in {"ensure", "new", "insert", "lookup"} =>
                   ~HoldsLock(t)
             /\ tasks[t].pc = "send" =>
                   (t \in readers /\ sess[tasks[t].s].holder = t))
    /\ \A t \in TaskIds : (tasks[t].pc # "idle") ~> Ended(t)

\* A task waits for the exclusive lock while another holds the shared lock
\* and has yet to take the mutex of its entry.
C20_Witness ==
    \E t, u \in TaskIds :
        /\ tasks[t].pc = "insert"
        /\ u \in readers
        /\ tasks[u].pc = "lock"
        /\ WaitsFor(t, u)

====
